---- MODULE Spec2Model ----
(***************************************************************************)
(* rumkinst: the `make` pipeline (discovery, archive assembly, checksum)   *)
(* and the process-wide progress coordinator.                              *)
(*                                                                         *)
(* Paths are modelled as std::path component sequences: "./root/sub" is    *)
(* <<".", "root", "sub">>.  PathBuf equality and hashing are by component, *)
(* so equality of sequences is PathBuf equality.                           *)
(***************************************************************************)
EXTENDS Integers, Sequences, FiniteSets, TLC

VARIABLES
    config,     \* Config: [group -> SourceConfig [disable, path, exclude]]
    fs,         \* the filesystem under the working directory: path -> kind
    dirOrder,   \* the order in which read_dir yields entry names
    pc,         \* control position of main / command_make (or of the client)
    found,      \* find_all_files locals root/env/script: search_source results
    reads,      \* per group, the paths search_source probed on the filesystem
    wrapper,    \* CENTRAL_PROGRESS_WRAPPER: OnceLock set?, RwLock poisoned?
    current,    \* CentralProgressWrapper.current: 0 is None, n is Some(bars[n])
    bars,       \* every ProgressBar created so far (shared Arc state)
    stack,      \* progress_wrapper calls not yet returned, innermost last
    returned,   \* what the last finished progress_wrapper call returned
    disk,       \* the run's output directory: archive and checksum files
    tarb,       \* tar::Builder: paths appended so far, finished?
    gz,         \* GzEncoder: header written?, bytes buffered, finished?
    cursor,     \* write_archive position: <<group index, file index>>
    filePos,    \* read/write offset of the archive file handle
    digest,     \* the finalized Sha256 value, once computed
    result      \* outcome of the run: "running", "ok", "err" or a panic message

vars == <<config, fs, dirOrder, pc, found, reads, wrapper, current, bars, stack,
          returned, disk, tarb, gz, cursor, filePos, digest, result>>

(***************************************************************************)
(* Bounds of the model.                                                    *)
(***************************************************************************)
MaxExcl == 2       \* longest `exclude` list drawn for a source group
MaxLength == 1     \* largest `length` a client passes to progress_wrapper
MaxBars == 2       \* most progress sessions a client starts
MaxPos == 2        \* cap on a progress bar's position in the client model

(***************************************************************************)
(* Configuration (config.rs)                                               *)
(***************************************************************************)
Groups == {"root", "env", "scripts"}

\* a faulty order: env written before root
GroupOrder_envFirst == <<"env", "root", "scripts">>

\* RumkinstFiles::write_archive writes the groups in this order
GroupOrder == <<"root", "env", "scripts">>

\* SourceConfig::init default paths "./root/", "./env/", "./scripts/"
default_path(g) == <<".", g>>

\* names below a group's base directory that the model populates
RelPaths == {<<"a.txt">>, <<"sub">>, <<"sub", "b.txt">>, <<"sub", "c.txt">>}

PathsOf(g) == {default_path(g)} \cup {default_path(g) \o r : r \in RelPaths}

FsPaths == UNION {PathsOf(g) : g \in Groups}

\* "none": no such entry (or a broken symlink); "other": exists but is
\* neither file nor directory; "udir": a directory whose listing fails
Kinds == {"none", "file", "dir", "udir", "other"}

Parent(p) == SubSeq(p, 1, Len(p) - 1)

IsProperPrefix(d, p) == Len(d) < Len(p) /\ SubSeq(p, 1, Len(d)) = d

\* RelativePathBuf::into_pathbuf hands the configured text on unchanged:
\* an `exclude` entry is a path relative to the working directory
into_pathbuf(rel) == rel

(***************************************************************************)
(* Filesystem probes (std::path::Path)                                     *)
(***************************************************************************)
KindOf(p) == IF p \in DOMAIN fs THEN fs[p] ELSE "none"

is_dir(p) == KindOf(p) \in {"dir", "udir"}

is_file(p) == KindOf(p) = "file"

exists(p) == KindOf(p) # "none"

\* read_dir succeeds on a readable directory
read_dir_ok(p) == KindOf(p) = "dir"

\* the entries of p, each as p joined with the entry name, in dirOrder
read_dir(p) ==
    LET names == SelectSeq(dirOrder, LAMBDA n : exists(Append(p, n)))
    IN  [i \in 1..Len(names) |-> Append(p, names[i])]

(***************************************************************************)
(* installer_gen/included_files.rs                                         *)
(***************************************************************************)
\* ExclusionFilter::from(&Vec<PathBuf>): HashSet::from_iter
ExclusionFilterFrom(value) == {value[i] : i \in DOMAIN value}

\* a faulty membership test that matches nothing
FilterContains_never(filter, path) == FALSE

\* filter.filter.contains(&path): exact PathBuf equality
FilterContains(filter, path) == path \in filter

\* the message recurse_into gives the progress bar for an entry
ReadingMsg(path) == <<"Reading", path>>

RECURSIVE recurse_into(_, _, _)
RECURSIVE recurse_entries(_, _, _)

\* a faulty variant that skips an entry that is neither file nor directory
read_entry_skipping(path, rest, filter, st) ==
    IF is_file(path)
    THEN recurse_entries(rest, filter, [st EXCEPT !.buf = Append(@, path)])
    ELSE IF is_dir(path)
    THEN LET sub == recurse_into(path, filter, st)
         IN  IF sub.ok THEN recurse_entries(rest, filter, sub) ELSE sub
    ELSE recurse_entries(rest, filter, st)

\* lines 83-91 for one entry that passed the filter, then the rest of the
\* loop: a file is pushed, a directory is descended into, anything else
\* fails the whole search
read_entry(path, rest, filter, st) ==
    IF is_file(path)
    THEN recurse_entries(rest, filter, [st EXCEPT !.buf = Append(@, path)])
    ELSE IF is_dir(path)
    THEN LET sub == recurse_into(path, filter, st)
         IN  IF sub.ok THEN recurse_entries(rest, filter, sub) ELSE sub
    ELSE [st EXCEPT !.ok = FALSE, !.err = <<"neither", path>>]

\* a faulty loop body that emits the message before it tests the filter
recurse_entries_msg_first(entries, filter, st) ==
    IF entries = <<>> THEN st
    ELSE LET path == Head(entries)
             rest == Tail(entries)
             st0 == [st EXCEPT !.seen = Append(@, path),
                               !.msgs = Append(@, ReadingMsg(path))]
         IN  IF FilterContains(filter, path)
             THEN recurse_entries(rest, filter, st0)
             ELSE read_entry(path, rest, filter,
                             [st0 EXCEPT !.reads = @ \cup {path}])

\* the body of the `for entry in path.read_dir()` loop, entry by entry.
\* st is [ok, buf, msgs, seen, reads, err]: the Result so far, the shared
\* buffer, the messages emitted, the entries the iteration yielded and the
\* paths probed.  The filter test and its `continue` (lines 76-79) come
\* before set_progress_message (line 81)
recurse_entries(entries, filter, st) ==
    IF entries = <<>> THEN st
    ELSE LET path == Head(entries)
             rest == Tail(entries)
             st0 == [st EXCEPT !.seen = Append(@, path)]
         IN  IF FilterContains(filter, path)
             THEN recurse_entries(rest, filter, st0)
             ELSE read_entry(path, rest, filter,
                             [st0 EXCEPT !.msgs = Append(@, ReadingMsg(path)),
                                         !.reads = @ \cup {path}])

recurse_into(path, filter, st) ==
    LET st1 == [st EXCEPT !.reads = @ \cup {path}]
    IN  IF ~read_dir_ok(path)
        THEN [st1 EXCEPT !.ok = FALSE, !.err = <<"read_dir", path>>]
        ELSE recurse_entries(read_dir(path), filter, st1)

\* visit_dirs: a fresh buffer, returned only when the recursion succeeded
visit_dirs(path, filter) ==
    LET st == recurse_into(path, filter,
                  [ok |-> TRUE, buf |-> <<>>, msgs |-> <<>>, seen |-> <<>>,
                   reads |-> {}, err |-> <<>>])
    IN  IF st.ok
        THEN [kind |-> "Ok", files |-> st.buf, msgs |-> st.msgs,
              seen |-> st.seen, reads |-> st.reads, err |-> <<>>]
        ELSE [kind |-> "Err", files |-> <<>>, msgs |-> st.msgs,
              seen |-> st.seen, reads |-> st.reads, err |-> st.err]

\* a faulty search that applies the filter to a single-file base
search_filtered(root, filter) ==
    IF is_dir(root) THEN visit_dirs(root, filter)
    ELSE IF is_file(root) /\ ~FilterContains(filter, root)
    THEN [kind |-> "Ok", files |-> <<root>>, msgs |-> <<>>, seen |-> <<>>,
          reads |-> {root}, err |-> <<>>]
    ELSE [kind |-> "Ok", files |-> <<>>, msgs |-> <<>>, seen |-> <<>>,
          reads |-> {root}, err |-> <<>>]

\* PathExplorer::search
search(root, filter) ==
    IF is_dir(root) THEN visit_dirs(root, filter)
    ELSE IF is_file(root)
    THEN [kind |-> "Ok", files |-> <<root>>, msgs |-> <<>>, seen |-> <<>>,
          reads |-> {root}, err |-> <<>>]
    ELSE IF ~exists(root)
    THEN [kind |-> "Err", files |-> <<>>, msgs |-> <<>>, seen |-> <<>>,
          reads |-> {root}, err |-> <<"does not exist", root>>]
    ELSE [kind |-> "Err", files |-> <<>>, msgs |-> <<>>, seen |-> <<>>,
          reads |-> {root}, err |-> <<"unexpected", root>>]

(***************************************************************************)
(* installer_gen/mod.rs                                                    *)
(***************************************************************************)
NoneResult == [kind |-> "None", files |-> <<>>, msgs |-> <<>>, seen |-> <<>>,
               reads |-> {}, err |-> <<>>]

Unsearched == [kind |-> "Unsearched", files |-> <<>>, msgs |-> <<>>,
               seen |-> <<>>, reads |-> {}, err |-> <<>>]

\* what find_all_files keeps of a search_source result
Stored(r) ==
    [kind |-> r.kind, files |-> r.files, msgs |-> r.msgs, seen |-> r.seen,
     err |-> r.err]

\* a faulty search_source that searches disabled sources too
search_source_ignoring_disable(source) ==
    search(source.path, ExclusionFilterFrom(source.exclude))

\* search_source: Ok(None) for a disabled source, else the explorer's result
search_source(source) ==
    IF source.disable THEN NoneResult
    ELSE search(source.path, ExclusionFilterFrom(source.exclude))

\* a faulty length that counts a present collection as one file
get_files_len_one(res) == IF res.kind = "Ok" THEN 1 ELSE 0

\* get_files_len: the length of a present collection, 0 for None
get_files_len(res) == IF res.kind = "Ok" THEN Len(res.files) ELSE 0

\* a faulty total that counts the root collection only
total_files_root_only(all) == get_files_len(all["root"])

\* RumkinstFiles::total_files
total_files(all) ==
    get_files_len(all["root"]) + get_files_len(all["env"])
        + get_files_len(all["scripts"])

(***************************************************************************)
(* progress_log.rs                                                         *)
(***************************************************************************)
\* ProgressBar::new(length) as added to the MultiProgress
NewBar(length) == [len |-> length, pos |-> 0, msg |-> <<>>, finished |-> FALSE]

\* a faulty acquisition without the is_some check
acquire_overwrite(cur, fresh) == [panic |-> FALSE, slot |-> fresh]

\* progress_wrapper, lines 66-78: panic when the slot is taken, else
\* current_pb.replace(pb.clone())
acquire(cur, fresh) ==
    IF cur # 0 THEN [panic |-> TRUE, slot |-> cur]
    ELSE [panic |-> FALSE, slot |-> fresh]

\* a faulty release that leaves the handle in the slot
release_keep(cur) == cur

\* progress_wrapper, line 82: wrapper.get_current_mut().take()
release(cur) == 0

\* a faulty increment that never advances the bar
inc_ignored(bs, cur, amount) == bs

\* increment_progress: pb.inc(amount) on the active bar, if any
increment_progress(bs, cur, amount) ==
    IF cur # 0 THEN [bs EXCEPT ![cur].pos = @ + amount] ELSE bs

\* set_progress_message: pb.set_message(msg) on the active bar, if any
set_progress_message(bs, cur, msg) ==
    IF cur # 0 THEN [bs EXCEPT ![cur].msg = msg] ELSE bs

\* the effect of a run of set_progress_message calls on the bars
RECURSIVE set_messages(_, _, _)
set_messages(bs, cur, msgs) ==
    IF msgs = <<>> THEN bs
    ELSE set_messages(set_progress_message(bs, cur, Head(msgs)), cur, Tail(msgs))

\* a progress_wrapper frame: its local `pb`, how often it called logic(),
\* and logic's result once it has returned, with the context of its error
Frame(idx) == [pb |-> idx, runs |-> 1, result |-> "pending", err |-> <<>>]

Top == stack[Len(stack)]

SetTopResult(r) == [stack EXCEPT ![Len(stack)].result = r]

\* logic() returns Err(e)
SetTopErr(e) ==
    [stack EXCEPT ![Len(stack)].result = "Err", ![Len(stack)].err = e]

\* get_wrapper() and get_current()/get_current_mut(): the `expect` that
\* fails, if any
WrapperPanic ==
    IF ~wrapper.initialized THEN "panic: log wrapper not initialized"
    ELSE IF wrapper.poisoned THEN "panic: current progressbar rwlock is poisoned"
    ELSE "none"

\* a panic unwinds out of main: the process ends
PanicWith(msg) == result' = msg /\ pc' = "panicked"

\* progress_wrapper up to and including the call of logic() (lines 65-80).
\* The panic of line 69 is raised with the write guard held, which poisons
\* the lock
progress_wrapper_enter(length, nextpc) ==
    IF WrapperPanic # "none"
    THEN PanicWith(WrapperPanic) /\ UNCHANGED <<wrapper, current, bars, stack>>
    ELSE LET a == acquire(current, Len(bars) + 1)
         IN  IF a.panic
             THEN /\ PanicWith("panic: progress bar already in use")
                  /\ wrapper' = [wrapper EXCEPT !.poisoned = TRUE]
                  /\ UNCHANGED <<current, bars, stack>>
             ELSE /\ bars' = Append(bars, NewBar(length))
                  /\ current' = a.slot
                  /\ stack' = Append(stack, Frame(Len(bars) + 1))
                  /\ pc' = nextpc
                  /\ UNCHANGED <<wrapper, result>>

\* progress_wrapper after logic() returned (lines 82-85): take the slot,
\* finish this frame's bar, hand back logic's result
progress_wrapper_exit ==
    /\ current' = release(current)
    /\ bars' = [bars EXCEPT ![Top.pb].finished = TRUE]
    /\ returned' = [value |-> Top.result, runs |-> Top.runs, pb |-> Top.pb,
                    err |-> Top.err]
    /\ stack' = SubSeq(stack, 1, Len(stack) - 1)

(***************************************************************************)
(* Archive and checksum artifacts (main.rs, make_archive)                  *)
(***************************************************************************)
\* config.get_name(): the package name
PackageName == "pkg"

\* format!("{}.tar.gz", name)
archive_name == <<PackageName, "tar", "gz">>

NoFile == [exists |-> FALSE, content |-> <<>>]

EmptyFile == [exists |-> TRUE, content |-> <<>>]

GzHeader == <<"gz_header", archive_name>>

\* Sha256 over the bytes it was fed: an uninterpreted, collision-free digest
Sha256(bytes) == <<"sha256", bytes>>

\* a write through the GzEncoder into the archive file: the header goes out
\* with the first write, data compressed earlier is dumped to the file, and
\* the new chunk stays in the encoder's buffer
GzWrite(file, z, chunk) ==
    [file |-> [file EXCEPT !.content =
                   @ \o (IF z.header THEN <<>> ELSE <<GzHeader>>) \o z.buf],
     gz |-> [z EXCEPT !.header = TRUE, !.buf = <<chunk>>]]

\* GzEncoder::finish: everything buffered, then the gzip trailer
GzFinish(file, z) ==
    [file |-> [file EXCEPT !.content =
                   @ \o (IF z.header THEN <<>> ELSE <<GzHeader>>) \o z.buf
                     \o << <<"gz_trailer">> >>],
     gz |-> [z EXCEPT !.header = TRUE, !.buf = <<>>, !.finished = TRUE]]

\* io::copy(&mut finished_file, &mut sha256): the bytes from the handle's
\* offset to the end of the file
ReadToEnd(file, pos) == SubSeq(file.content, pos + 1, Len(file.content))

\* a faulty seek that leaves the offset at the end of the file
seek_skipped(pos) == pos

\* finished_file.seek(SeekFrom::Start(0)): the new offset
seek_start(pos) == 0

(***************************************************************************)
(* Initial states                                                          *)
(***************************************************************************)
\* a tree below a group's base: an entry exists only inside a directory
Trees(g) ==
    {t \in [PathsOf(g) -> Kinds] :
        \A p \in PathsOf(g) \ {default_path(g)} :
            t[p] # "none" => t[Parent(p)] = "dir"}

\* the trees the whole pipeline is run on: a missing base, a single file,
\* and directories holding regular files only
PipeTrees(g) ==
    {t \in Trees(g) :
        /\ \A p \in PathsOf(g) : t[p] \in {"none", "file", "dir"}
        /\ t[default_path(g) \o <<"sub", "c.txt">>] = "none"
        /\ t[default_path(g) \o <<"a.txt">>] # "dir"
        /\ t[default_path(g) \o <<"sub">>] # "file"
        /\ (t[default_path(g) \o <<"sub">>] = "dir"
                <=> t[default_path(g) \o <<"sub", "b.txt">>] = "file")
        /\ (g # "root" /\ t[default_path(g)] = "dir"
                => t[default_path(g) \o <<"a.txt">>] = "file")}

NameOrder == <<"a.txt", "b.txt", "c.txt", "sub">>

Reversed(q) == [i \in 1..Len(q) |-> q[Len(q) + 1 - i]]

\* read_dir promises no order: the run sees one of these
Orders == {NameOrder, Reversed(NameOrder)}

\* `exclude` entries as a configuration may spell them: relative to the
\* working directory like the group's path, relative to the group's base,
\* or the base itself
ExclCandidates(g) ==
    {into_pathbuf(x) : x \in {default_path(g), <<"sub">>,
                              default_path(g) \o <<"sub">>,
                              default_path(g) \o <<"a.txt">>,
                              default_path(g) \o <<"sub", "b.txt">>}}

ExcludeLists(g) == UNION {[1..n -> ExclCandidates(g)] : n \in 0..MaxExcl}

SourceConfig(g, d, ex) == [disable |-> d, path |-> default_path(g), exclude |-> ex]

\* the process at its start: the OnceLock unset, nothing on disk
InitRest ==
    /\ found = [g \in Groups |-> Stored(Unsearched)]
    /\ reads = [g \in Groups |-> {}]
    /\ current = 0
    /\ bars = <<>>
    /\ stack = <<>>
    /\ returned = [value |-> "none", runs |-> 0, pb |-> 0, err |-> <<>>]
    /\ disk = [archive |-> NoFile, checksum |-> NoFile]
    /\ tarb = [entries |-> <<>>, finished |-> FALSE]
    /\ gz = [header |-> FALSE, buf |-> <<>>, finished |-> FALSE]
    /\ cursor = <<1, 1>>
    /\ filePos = 0
    /\ digest = <<>>
    /\ result = "running"

\* main before setup_logging, with the configuration and tree it will find
Init ==
    /\ \E tr \in PipeTrees("root"), te \in PipeTrees("env"),
          ts \in PipeTrees("scripts") :
          fs = [p \in FsPaths |->
                   IF p \in PathsOf("root") THEN tr[p]
                   ELSE IF p \in PathsOf("env") THEN te[p] ELSE ts[p]]
    /\ \E dr \in BOOLEAN, de \in BOOLEAN, ds \in BOOLEAN,
          ex \in {<<>>, <<default_path("root") \o <<"sub">> >>} :
          config = [g \in Groups |->
                       IF g = "root" THEN SourceConfig(g, dr, ex)
                       ELSE IF g = "env" THEN SourceConfig(g, de, <<>>)
                       ELSE SourceConfig(g, ds, <<>>)]
    /\ dirOrder \in Orders
    /\ pc = "main"
    /\ wrapper = [initialized |-> FALSE, poisoned |-> FALSE]
    /\ InitRest

\* find_all_files about to search one source group: any tree below its
\* base, any exclude list
InitSearch ==
    /\ \E tr \in Trees("root") :
          fs = [p \in FsPaths |-> IF p \in PathsOf("root") THEN tr[p] ELSE "none"]
    /\ \E d \in BOOLEAN, ex \in ExcludeLists("root") :
          config = [g \in Groups |->
                       IF g = "root" THEN SourceConfig(g, d, ex)
                       ELSE SourceConfig(g, TRUE, <<>>)]
    /\ dirOrder \in Orders
    /\ pc = "search"
    /\ wrapper = [initialized |-> TRUE, poisoned |-> FALSE]
    /\ InitRest

\* the progress coordinator alone, driven by an arbitrary caller
InitProgress ==
    /\ fs = [p \in FsPaths |-> "none"]
    /\ config = [g \in Groups |-> SourceConfig(g, TRUE, <<>>)]
    /\ dirOrder = NameOrder
    /\ pc = "main"
    /\ wrapper = [initialized |-> FALSE, poisoned |-> FALSE]
    /\ InitRest

(***************************************************************************)
(* Actions: command_make (main.rs) and find_all_files (mod.rs)             *)
(***************************************************************************)
cfgVars == <<config, fs, dirOrder>>

archVars == <<disk, tarb, gz, cursor, filePos, digest>>

\* a call into progress_log.rs panics in get_wrapper or on the poisoned lock
ProgressPanic ==
    /\ PanicWith(WrapperPanic)
    /\ UNCHANGED <<cfgVars, archVars, found, reads, wrapper, current, bars,
                   stack, returned>>

\* setup_log_wrapper: CENTRAL_PROGRESS_WRAPPER.set(..), panic if already set
setup_log_wrapper(next) ==
    /\ pc = "main"
    /\ IF wrapper.initialized
       THEN /\ PanicWith("panic: setup_log_wrapper should only be called once")
            /\ UNCHANGED wrapper
       ELSE /\ wrapper' = [initialized |-> TRUE, poisoned |-> FALSE]
            /\ pc' = next
            /\ UNCHANGED result
    /\ UNCHANGED <<cfgVars, archVars, found, reads, current, bars, stack,
                   returned>>

\* main: setup_logging, then Command::Make up to the first progress_wrapper
SetupLogging == setup_log_wrapper("start")

\* command_make line 120: progress_wrapper(3, || find_all_files(&config))
BeginDiscovery ==
    /\ pc = "start"
    /\ progress_wrapper_enter(3, "search_root")
    /\ UNCHANGED <<cfgVars, archVars, found, reads, returned>>

\* a faulty variant that goes on to the next group after a failed search
after_search_continue(kind, next) == next

\* find_all_files lines 75-77: the `?` after each search_source returns the
\* error at once, else the next statement runs
after_search(kind, next) == IF kind = "Err" THEN "discovery_end" ELSE next

\* one line of find_all_files: search_source(..).inspect(increment)?
FindStep(g, here, next) ==
    /\ pc = here
    /\ IF WrapperPanic # "none"
       THEN ProgressPanic
       ELSE /\ LET r == search_source(config[g])
                   bs == set_messages(bars, current, r.msgs)
               IN  /\ found' = [found EXCEPT ![g] = Stored(r)]
                   /\ reads' = [reads EXCEPT ![g] = r.reads]
                   /\ IF r.kind = "Err"
                      THEN /\ bars' = bs
                           /\ stack' = SetTopErr(r.err)
                           /\ pc' = after_search(r.kind, next)
                      ELSE /\ bars' = increment_progress(bs, current, 1)
                           /\ stack' = IF next = "discovery_end"
                                        THEN SetTopResult("Ok") ELSE stack
                           /\ pc' = after_search(r.kind, next)
            /\ UNCHANGED <<cfgVars, wrapper, archVars, current, returned, result>>

FindRoot == FindStep("root", "search_root", "search_env")

FindEnv == FindStep("env", "search_env", "search_scripts")

FindScripts == FindStep("scripts", "search_scripts", "discovery_end")

\* the first progress_wrapper returns; `?` on its result (lines 120-121)
EndDiscovery ==
    /\ pc = "discovery_end"
    /\ IF WrapperPanic # "none"
       THEN ProgressPanic
       ELSE /\ progress_wrapper_exit
            /\ IF Top.result = "Err"
               THEN pc' = "done" /\ result' = "err"
               ELSE pc' = "check_total" /\ UNCHANGED result
            /\ UNCHANGED <<cfgVars, wrapper, archVars, found, reads>>

\* command_make lines 125-132: archive only when there is a file
CheckTotal ==
    /\ pc = "check_total"
    /\ IF total_files(found) > 0
       THEN /\ progress_wrapper_enter(total_files(found), "create_archive")
            /\ UNCHANGED returned
       ELSE /\ pc' = "done"
            /\ result' = "ok"
            /\ UNCHANGED <<wrapper, current, bars, stack, returned>>
    /\ UNCHANGED <<cfgVars, archVars, found, reads>>

\* a step of make_archive failed: the closure returns Err
FailArchive(e) ==
    /\ stack' = SetTopErr(e)
    /\ pc' = "archive_end"

\* File::create_new(&archive_path)
CreateArchiveFile ==
    /\ pc = "create_archive"
    /\ \E ok \in BOOLEAN :
          IF ok /\ ~disk.archive.exists
          THEN /\ disk' = [disk EXCEPT !.archive = EmptyFile]
               /\ pc' = "create_checksum"
               /\ UNCHANGED stack
          ELSE FailArchive(<<"create archive", archive_name>>) /\ UNCHANGED disk
    /\ UNCHANGED <<cfgVars, wrapper, found, reads, current, bars, returned, result,
                   tarb, gz, cursor, filePos, digest>>

\* a faulty variant that goes on without creating the checksum file
CreateChecksumFile_skipped ==
    /\ pc = "create_checksum"
    /\ pc' = "write"
    /\ UNCHANGED <<cfgVars, wrapper, found, reads, current, bars, returned, result,
                   tarb, gz, cursor, filePos, digest, disk, stack>>

\* File::create_new(&checksum_path), then the encoder and the tar builder
CreateChecksumFile ==
    /\ pc = "create_checksum"
    /\ \E ok \in BOOLEAN :
          IF ok /\ ~disk.checksum.exists
          THEN /\ disk' = [disk EXCEPT !.checksum = EmptyFile]
               /\ pc' = "write"
               /\ UNCHANGED stack
          ELSE FailArchive(<<"create checksum", archive_name>>) /\ UNCHANGED disk
    /\ UNCHANGED <<cfgVars, wrapper, found, reads, current, bars, returned, result,
                   tarb, gz, cursor, filePos, digest>>

CursorGroup == found[GroupOrder[cursor[1]]]

CursorInGroup == CursorGroup.kind = "Ok" /\ cursor[2] <= Len(CursorGroup.files)

WritingMsg(path) == <<"Writing", path>>

\* a faulty variant that counts the file before it is appended
append_progress_first(bs, cur, ok) == increment_progress(bs, cur, 1)

\* mod.rs lines 63-66: the `?` on a failed append_path returns before
\* increment_progress(1)
append_progress(bs, cur, ok) ==
    IF ok THEN increment_progress(bs, cur, 1) ELSE bs

\* write_archive(opt, archive): one turn of `for path in files.files.iter()`
AppendFile ==
    /\ pc = "write"
    /\ CursorInGroup
    /\ IF WrapperPanic # "none"
       THEN ProgressPanic
       ELSE /\ LET path == CursorGroup.files[cursor[2]]
                   bs == set_progress_message(bars, current, WritingMsg(path))
               IN  \E ok \in BOOLEAN :
                      IF ok
                      THEN LET w == GzWrite(disk.archive, gz, <<"entry", path>>)
                           IN  /\ tarb' = [tarb EXCEPT !.entries = Append(@, path)]
                               /\ disk' = [disk EXCEPT !.archive = w.file]
                               /\ gz' = w.gz
                               /\ filePos' = Len(w.file.content)
                               /\ bars' = append_progress(bs, current, ok)
                               /\ cursor' = <<cursor[1], cursor[2] + 1>>
                               /\ UNCHANGED <<pc, stack>>
                      ELSE /\ bars' = append_progress(bs, current, ok)
                           /\ FailArchive(<<"append", path>>)
                           /\ UNCHANGED <<tarb, disk, gz, filePos, cursor>>
            /\ UNCHANGED <<cfgVars, wrapper, found, reads, current, returned,
                           result, digest>>

\* write_archive returns Ok(()) for this group (or it was None): the next
\* of the three calls in RumkinstFiles::write_archive
NextGroup ==
    /\ pc = "write"
    /\ ~CursorInGroup
    /\ IF cursor[1] < Len(GroupOrder)
       THEN cursor' = <<cursor[1] + 1, 1>> /\ UNCHANGED pc
       ELSE pc' = "tar_finish" /\ UNCHANGED cursor
    /\ UNCHANGED <<cfgVars, wrapper, found, reads, current, bars, stack, returned,
                   result, disk, tarb, gz, filePos, digest>>

\* archive.finish(): the end-of-archive blocks go through the encoder
TarFinish ==
    /\ pc = "tar_finish"
    /\ \E ok \in BOOLEAN :
          IF ok
          THEN LET w == GzWrite(disk.archive, gz, <<"tar_trailer">>)
               IN  /\ tarb' = [tarb EXCEPT !.finished = TRUE]
                   /\ disk' = [disk EXCEPT !.archive = w.file]
                   /\ gz' = w.gz
                   /\ filePos' = Len(w.file.content)
                   /\ pc' = "gz_finish"
                   /\ UNCHANGED stack
          ELSE /\ FailArchive(<<"finish archive">>)
               /\ UNCHANGED <<tarb, disk, gz, filePos>>
    /\ UNCHANGED <<cfgVars, wrapper, found, reads, current, bars, returned, result,
                   cursor, digest>>

\* encoder.finish()
FinishEncoder ==
    /\ pc = "gz_finish"
    /\ \E ok \in BOOLEAN :
          IF ok
          THEN LET w == GzFinish(disk.archive, gz)
               IN  /\ disk' = [disk EXCEPT !.archive = w.file]
                   /\ gz' = w.gz
                   /\ filePos' = Len(w.file.content)
                   /\ pc' = "seek"
                   /\ UNCHANGED stack
          ELSE FailArchive(<<"finish gzip">>) /\ UNCHANGED <<disk, gz, filePos>>
    /\ UNCHANGED <<cfgVars, wrapper, found, reads, current, bars, returned, result,
                   tarb, cursor, digest>>

\* finished_file.seek(SeekFrom::Start(0))
SeekArchive ==
    /\ pc = "seek"
    /\ \E ok \in BOOLEAN :
          IF ok
          THEN filePos' = seek_start(filePos) /\ pc' = "digest" /\ UNCHANGED stack
          ELSE FailArchive(<<"seek">>) /\ UNCHANGED filePos
    /\ UNCHANGED <<cfgVars, wrapper, found, reads, current, bars, returned, result,
                   disk, tarb, gz, cursor, digest>>

\* io::copy into the hasher, then sha256.finalize()
DigestArchive ==
    /\ pc = "digest"
    /\ \E ok \in BOOLEAN :
          IF ok
          THEN /\ digest' = Sha256(ReadToEnd(disk.archive, filePos))
               /\ filePos' = Len(disk.archive.content)
               /\ pc' = "write_checksum"
               /\ UNCHANGED stack
          ELSE FailArchive(<<"hasher">>) /\ UNCHANGED <<digest, filePos>>
    /\ UNCHANGED <<cfgVars, wrapper, found, reads, current, bars, returned, result,
                   disk, tarb, gz, cursor>>

\* what a write_fmt that failed part-way leaves in the checksum file: the
\* start of the line, which is no digest record
CutShort == << [digest |-> <<"cut short">>, name |-> <<>>] >>

\* checksum_file.write_fmt("{digest:x}  {archive_name}"), then Ok(())
WriteChecksum ==
    /\ pc = "write_checksum"
    /\ \E ok \in BOOLEAN :
          IF ok
          THEN /\ disk' = [disk EXCEPT !.checksum.content =
                               << [digest |-> digest, name |-> archive_name] >>]
               /\ stack' = SetTopResult("Ok")
               /\ pc' = "archive_end"
          ELSE /\ FailArchive(<<"write checksum", archive_name>>)
               /\ \E cut \in BOOLEAN :
                     disk' = IF cut
                             THEN [disk EXCEPT !.checksum.content = CutShort]
                             ELSE disk
    /\ UNCHANGED <<cfgVars, wrapper, found, reads, current, bars, returned, result,
                   tarb, gz, cursor, filePos, digest>>

\* the second progress_wrapper returns; `?`, then Ok(()) (lines 126-136)
EndArchive ==
    /\ pc = "archive_end"
    /\ IF WrapperPanic # "none"
       THEN ProgressPanic
       ELSE /\ progress_wrapper_exit
            /\ pc' = "done"
            /\ result' = IF Top.result = "Ok" THEN "ok" ELSE "err"
            /\ UNCHANGED <<cfgVars, wrapper, archVars, found, reads>>

Next ==
    \/ SetupLogging
    \/ BeginDiscovery
    \/ FindRoot
    \/ FindEnv
    \/ FindScripts
    \/ EndDiscovery
    \/ CheckTotal
    \/ CreateArchiveFile
    \/ CreateChecksumFile
    \/ AppendFile
    \/ NextGroup
    \/ TarFinish
    \/ FinishEncoder
    \/ SeekArchive
    \/ DigestArchive
    \/ WriteChecksum
    \/ EndArchive

Spec == Init /\ [][Next]_vars

(***************************************************************************)
(* search_source applied to one source group                               *)
(***************************************************************************)
ApplySearch ==
    /\ pc = "search"
    /\ IF WrapperPanic # "none"
       THEN ProgressPanic
       ELSE /\ LET r == search_source(config["root"])
               IN  /\ found' = [found EXCEPT !["root"] = Stored(r)]
                   /\ reads' = [reads EXCEPT !["root"] = r.reads]
            /\ pc' = "searched"
            /\ UNCHANGED <<cfgVars, wrapper, archVars, current, bars, stack,
                           returned, result>>

NextSearch == ApplySearch

SpecSearch == InitSearch /\ [][NextSearch]_vars

(***************************************************************************)
(* The progress coordinator under an arbitrary single-threaded caller: the *)
(* caller, and the `logic` closures it passes, may call any of the three   *)
(* public functions of progress_log.rs at any point.  A panic ends the     *)
(* process.                                                                *)
(***************************************************************************)
ClientMsgs == {<<"m1">>, <<"m2">>}

\* the caller is running: at top level, or inside a closure not yet returned
ClientRunning ==
    /\ pc = "client"
    /\ IF stack = <<>> THEN TRUE ELSE Top.result = "pending"

\* progress_wrapper(length, logic) up to the call of logic()
ClientCall ==
    /\ ClientRunning
    /\ Len(bars) < MaxBars
    /\ \E length \in 0..MaxLength : progress_wrapper_enter(length, "client")
    /\ UNCHANGED <<cfgVars, archVars, found, reads, returned>>

\* increment_progress(amount)
ClientIncrement ==
    /\ ClientRunning
    /\ IF WrapperPanic # "none"
       THEN ProgressPanic
       ELSE /\ \E amount \in 1..2 :
                  /\ current # 0 => bars[current].pos + amount <= MaxPos
                  /\ bars' = increment_progress(bars, current, amount)
            /\ UNCHANGED <<cfgVars, wrapper, archVars, found, reads, pc, current, stack,
                           returned, result>>

\* set_progress_message(msg)
ClientSetMessage ==
    /\ ClientRunning
    /\ IF WrapperPanic # "none"
       THEN ProgressPanic
       ELSE /\ \E msg \in ClientMsgs : bars' = set_progress_message(bars, current, msg)
            /\ UNCHANGED <<cfgVars, wrapper, archVars, found, reads, pc, current, stack,
                           returned, result>>

\* the closure returns: `let result = logic();` (line 80)
ClientWorkReturns ==
    /\ pc = "client"
    /\ stack # <<>>
    /\ Top.result = "pending"
    /\ \E r \in {"Ok", "Err"} : stack' = SetTopResult(r)
    /\ UNCHANGED <<cfgVars, wrapper, archVars, found, reads, pc, current, bars,
                   returned, result>>

\* progress_wrapper lines 82-85
ClientWrapperExit ==
    /\ pc = "client"
    /\ stack # <<>>
    /\ Top.result # "pending"
    /\ IF WrapperPanic # "none"
       THEN ProgressPanic
       ELSE /\ progress_wrapper_exit
            /\ UNCHANGED <<cfgVars, wrapper, archVars, found, reads, pc, result>>

\* the caller initializes the coordinator first, as main does
ClientSetup == setup_log_wrapper("client")

NextProgress ==
    \/ ClientSetup
    \/ ClientCall
    \/ ClientIncrement
    \/ ClientSetMessage
    \/ ClientWorkReturns
    \/ ClientWrapperExit

SpecProgress == InitProgress /\ [][NextProgress]_vars

(***************************************************************************)
(* Properties                                                              *)
(***************************************************************************)
RootBase == config["root"].path

RootExcl == ExclusionFilterFrom(config["root"].exclude)

RootFiles == {found["root"].files[i] : i \in DOMAIN found["root"].files}

\* search_source ran on an enabled root group whose base is a directory,
\* and returned a file list
SearchedDirOk ==
    /\ pc = "searched"
    /\ ~config["root"].disable
    /\ fs[RootBase] \in {"dir", "udir"}
    /\ found["root"].kind = "Ok"

\* C1 as stated: the file list of a directory base holds no member of the
\* exclusion set E and no descendant of any directory whose exact path is
\* in E.
C1_AsStated ==
    SearchedDirOk =>
        \A f \in RootFiles :
            /\ f \notin RootExcl
            /\ \A d \in RootExcl :
                  is_dir(d) => ~IsProperPrefix(d, f)

\* C1, amended: the file list of a directory base holds no member of E and
\* no descendant of a directory strictly below the base whose exact path
\* (the base joined with the entry names) is in E.  The base directory
\* itself is never tested against E.
C1_NoExcludedBelowBase ==
    SearchedDirOk =>
        \A f \in RootFiles :
            /\ f \notin RootExcl
            /\ \A d \in RootExcl :
                  IsProperPrefix(RootBase, d) => ~IsProperPrefix(d, f)

\* an excluded directory with a file inside was met, next to a file that
\* was returned
C1_Witness ==
    /\ SearchedDirOk
    /\ RootBase \o <<"sub">> \in RootExcl
    /\ fs[RootBase \o <<"sub">>] = "dir"
    /\ fs[RootBase \o <<"sub", "b.txt">>] = "file"
    /\ found["root"].files = <<RootBase \o <<"a.txt">> >>

\* the tree {a.txt, sub/b.txt, sub/c.txt} under the group's base
TreeOfC2 ==
    /\ fs[RootBase] = "dir"
    /\ fs[RootBase \o <<"a.txt">>] = "file"
    /\ fs[RootBase \o <<"sub">>] = "dir"
    /\ fs[RootBase \o <<"sub", "b.txt">>] = "file"
    /\ fs[RootBase \o <<"sub", "c.txt">>] = "file"

\* C2: exclusion paths are normalized against the traversal base before
\* the membership test: for the tree {a.txt, sub/b.txt, sub/c.txt} and the
\* exclusion list {sub}, search_source returns exactly {a.txt}.
C2_ExcludeRelativeToBase ==
    (/\ pc = "searched"
     /\ ~config["root"].disable
     /\ TreeOfC2
     /\ config["root"].exclude = << <<"sub">> >>)
        => /\ found["root"].kind = "Ok"
           /\ found["root"].files = <<RootBase \o <<"a.txt">> >>

FilesOrNone(g) == IF found[g].kind = "Ok" THEN found[g].files ELSE <<>>

RECURSIVE SumLen(_)
SumLen(gs) ==
    IF gs = {} THEN 0
    ELSE LET g == CHOOSE x \in gs : TRUE
         IN  Len(found[g].files) + SumLen(gs \ {g})

\* C3: a disabled group is never searched: search_source returns None, no
\* path of the filesystem is probed for it, it adds nothing to
\* total_files() and no entry of it is appended to the archive, whatever
\* is at its path.
C3_DisabledContributesNothing ==
    \A g \in Groups :
        config[g].disable =>
            /\ found[g].kind \in {"Unsearched", "None"}
            /\ pc \in {"check_total", "done"} /\ result # "err"
                  => found[g].kind = "None"
            /\ reads[g] = {}
            /\ total_files(found) = SumLen({h \in Groups : ~config[h].disable})
            /\ \A i \in DOMAIN tarb.entries :
                  ~IsProperPrefix(config[g].path, tarb.entries[i])

\* a run archived files while a disabled group's path was missing and
\* another disabled group's path held files
C3_Witness ==
    /\ pc = "done"
    /\ result = "ok"
    /\ tarb.entries # <<>>
    /\ config["root"].disable /\ fs[config["root"].path] = "none"
    /\ config["env"].disable /\ fs[config["env"].path \o <<"a.txt">>] = "file"
    /\ found["root"].kind = "None" /\ found["env"].kind = "None"

IsPrefixSeq(a, b) == Len(a) <= Len(b) /\ SubSeq(b, 1, Len(a)) = a

RootEnvScripts == FilesOrNone("root") \o FilesOrNone("env") \o FilesOrNone("scripts")

\* C4: the entries appended are the root collection, then the env
\* collection, then the scripts collection, each in its stored order,
\* absent groups skipped, nothing reordered, dropped or deduplicated: a
\* prefix of that concatenation while writing, all of it once the
\* container is finished.
C4_ArchiveOrder ==
    /\ IsPrefixSeq(tarb.entries, RootEnvScripts)
    /\ pc \in {"tar_finish", "gz_finish", "seek", "digest", "write_checksum"}
          => tarb.entries = RootEnvScripts
    /\ tarb.finished => tarb.entries = RootEnvScripts

\* a finished container with two root files in reverse name order, env
\* absent, then the scripts files
C4_Witness ==
    /\ tarb.finished
    /\ dirOrder = Reversed(NameOrder)
    /\ Len(FilesOrNone("root")) = 2
    /\ found["env"].kind = "None"
    /\ Len(FilesOrNone("scripts")) = 2
    /\ Len(tarb.entries) = 4

Unfinished == {i \in DOMAIN bars : ~bars[i].finished}

C6_ReleaseOnReturn ==
    [][Len(stack') < Len(stack) =>
          /\ current' = 0
          /\ bars'[Top.pb].finished
          /\ returned'.value = Top.result
          /\ returned'.value \in {"Ok", "Err"}
          /\ returned'.runs = 1
          /\ returned'.pb = Top.pb
          /\ result' = "running"]_vars

\* a session whose work failed has returned, and a later session holds
\* the slot
C6_Witness ==
    /\ returned.value = "Err"
    /\ returned.pb = 1
    /\ bars[1].finished
    /\ current = 2
    /\ Len(stack) = 1

\* C7: increment_progress and set_progress_message never fail: wherever
\* the caller can make a call the coordinator is initialized and its lock
\* is not poisoned, and no state is reached through their panics; with a
\* session active the call updates that session's bar and nothing else,
\* with none active it changes nothing.
C7_NeverFail ==
    /\ result \notin {"panic: log wrapper not initialized",
                       "panic: current progressbar rwlock is poisoned"}
    /\ ClientRunning =>
          /\ WrapperPanic = "none"
          /\ current \in {0} \cup DOMAIN bars
          /\ \A amount \in 1..2, msg \in ClientMsgs :
                LET inc == increment_progress(bars, current, amount)
                    set == set_progress_message(bars, current, msg)
                IN  IF current = 0
                    THEN inc = bars /\ set = bars
                    ELSE /\ inc = [bars EXCEPT ![current].pos = bars[current].pos + amount]
                         /\ set = [bars EXCEPT ![current].msg = msg]

\* calls were made with a session active (its bar advanced and labelled);
\* the session has ended and the caller goes on with none active
C7_Witness ==
    /\ ClientRunning
    /\ current = 0
    /\ Len(bars) = 1
    /\ bars[1].finished
    /\ bars[1].pos = 2
    /\ bars[1].msg = <<"m2">>

NoFilesFound == \A g \in Groups : found[g].kind \in {"Ok", "None"} /\ found[g].files = <<>>

\* C8: when discovery yields no file in any group, command_make creates
\* neither the archive nor the checksum file, starts no archive progress
\* session (the discovery session stays the only one) and returns
\* success.
C8_ZeroFiles ==
    NoFilesFound =>
        /\ ~disk.archive.exists
        /\ ~disk.checksum.exists
        /\ Len(bars) = 1
        /\ pc \in {"discovery_end", "check_total", "done"}
        /\ pc = "done" => result = "ok"
        /\ result \in {"running", "ok"}

\* a finished run that found an empty directory and a disabled group
C8_Witness ==
    /\ pc = "done"
    /\ result = "ok"
    /\ NoFilesFound
    /\ found["root"].kind = "Ok"
    /\ found["env"].kind = "None"

\* make_archive has returned Ok(())
MadeArchive ==
    \/ pc = "archive_end" /\ Top.result = "Ok"
    \/ pc = "done" /\ result = "ok" /\ disk.archive.exists

\* C9: once make_archive has returned Ok, the digest in the sidecar is the
\* digest of the whole archive file as it is on disk, and the tar
\* container and the gzip encoder had both been finished before the
\* digest was taken.
C9_ChecksumMatchesArchive ==
    /\ digest # <<>> => tarb.finished /\ gz.finished /\ gz.buf = <<>>
    /\ MadeArchive =>
          /\ disk.checksum.content =
                << [digest |-> Sha256(disk.archive.content), name |-> archive_name] >>
          /\ disk.archive.content[Len(disk.archive.content)] = <<"gz_trailer">>

\* a successful run whose archive holds three entries
C9_Witness ==
    /\ pc = "done"
    /\ result = "ok"
    /\ disk.checksum.content # <<>>
    /\ Len(tarb.entries) = 3

\* C10: when the base path is a regular file, search returns exactly that
\* one path, whatever the exclusion set, the base path included.
C10_SingleFileBase ==
    (pc = "searched" /\ ~config["root"].disable /\ fs[RootBase] = "file")
        => /\ found["root"].kind = "Ok"
           /\ found["root"].files = <<RootBase>>

\* the base is a file and the exclusion set names it
C10_Witness ==
    /\ pc = "searched"
    /\ ~config["root"].disable
    /\ fs[RootBase] = "file"
    /\ RootBase \in RootExcl
    /\ found["root"].files = <<RootBase>>

RootSeen == found["root"].seen

RootMsgs == found["root"].msgs

NotExcluded(p) == p \notin RootExcl

KeptFile(p) == p \notin RootExcl /\ is_file(p)

ReadingMsgs(q) == [i \in 1..Len(q) |-> ReadingMsg(q[i])]

\* search_source ran on an enabled root group whose base is a directory
SearchedDir ==
    /\ pc = "searched"
    /\ ~config["root"].disable
    /\ fs[RootBase] \in {"dir", "udir"}

\* C11 as stated: every entry the discovery visits, an excluded one
\* included, has its progress message emitted.
C11_AsStated ==
    SearchedDir =>
        \A i \in DOMAIN RootSeen :
            \E j \in DOMAIN RootMsgs : RootMsgs[j] = ReadingMsg(RootSeen[i])

\* C11, amended: the progress messages of a discovery are exactly the
\* messages of the visited entries that passed the exclusion filter, in the
\* order visited (an excluded entry emits none), and the files returned are
\* the visited entries that passed the filter and are regular files,
\* whatever was emitted.
C11_MessageAfterFilter ==
    SearchedDir =>
        /\ RootMsgs = ReadingMsgs(SelectSeq(RootSeen, NotExcluded))
        /\ found["root"].kind = "Ok" =>
              found["root"].files = SelectSeq(RootSeen, KeptFile)

\* a discovery that met an excluded entry and an entry it read
C11_Witness ==
    /\ SearchedDir
    /\ found["root"].kind = "Ok"
    /\ \E i \in DOMAIN RootSeen : RootSeen[i] \in RootExcl
    /\ RootMsgs # <<>>
    /\ found["root"].files # <<>>

\* p lies below the root base, exists, and neither p nor a directory between
\* the base and p is excluded: the traversal gets to p unless it failed
\* before
Reachable(p) ==
    /\ IsProperPrefix(RootBase, p)
    /\ exists(p)
    /\ \A n \in (Len(RootBase) + 1)..Len(p) : SubSeq(p, 1, n) \notin RootExcl

\* an entry the traversal cannot take in: neither file nor directory, or a
\* directory whose listing fails
Unusable(p) == KindOf(p) \in {"other", "udir"}

\* C12: a failed search returns no file list at all, and a search fails
\* whenever the base directory cannot be listed or a non-excluded entry at
\* any depth is neither file nor directory or is a directory that cannot
\* be listed; a search that succeeds took in every such entry as a file of
\* its result or as a directory it listed.
C12_ErrorNoPartialResult ==
    SearchedDir =>
        /\ found["root"].kind \in {"Ok", "Err"}
        /\ found["root"].kind = "Err" => found["root"].files = <<>>
        /\ fs[RootBase] = "udir" => found["root"].kind = "Err"
        /\ \A p \in PathsOf("root") :
              Reachable(p) /\ Unusable(p) => found["root"].kind = "Err"
        /\ found["root"].kind = "Ok" =>
              \A p \in PathsOf("root") :
                  Reachable(p) =>
                      \/ p \in RootFiles
                      \/ fs[p] = "dir" /\ p \in reads["root"]

\* a search that had pushed a file when it met, one level down, an entry
\* that is neither file nor directory
C12_Witness ==
    /\ SearchedDir
    /\ RootExcl = {}
    /\ dirOrder = NameOrder
    /\ fs[RootBase \o <<"a.txt">>] = "file"
    /\ fs[RootBase \o <<"sub", "b.txt">>] = "other"
    /\ found["root"].kind = "Err"
    /\ found["root"].err = <<"neither", RootBase \o <<"sub", "b.txt">> >>

\* the error the archive session is ending with, or ended with
ArchiveErr ==
    IF pc = "archive_end" THEN Top.err
    ELSE IF pc = "done" /\ returned.pb = 2 THEN returned.err
    ELSE <<>>

AppendFailed == ArchiveErr # <<>> /\ ArchiveErr[1] = "append"

FailedGroups == {g \in Groups : found[g].kind = "Err"}

NeverSearched(g) == found[g].kind = "Unsearched" /\ reads[g] = {}

\* C14: a failed search of a group is the end of the pipeline: the groups
\* after it are never searched, no archive or checksum file is created, no
\* second progress session is started, and command_make returns that
\* group's error; and no group is ever searched a second time.
C14_StopsAtFirstFailure ==
    /\ [](/\ found["root"].kind = "Err" =>
                NeverSearched("env") /\ NeverSearched("scripts")
          /\ found["env"].kind = "Err" => NeverSearched("scripts")
          /\ \A g \in FailedGroups :
                /\ FailedGroups = {g}
                /\ ~disk.archive.exists
                /\ ~disk.checksum.exists
                /\ Len(bars) = 1
                /\ pc \in {"discovery_end", "done"}
                /\ pc = "done" => result = "err" /\ returned.err = found[g].err)
    /\ [][\A g \in Groups :
             found[g].kind # "Unsearched" =>
                 found'[g] = found[g] /\ reads'[g] = reads[g]]_vars

\* the root search failed and the run ended, with an env group that is
\* enabled and present
C14_Witness ==
    /\ found["root"].kind = "Err"
    /\ pc = "done"
    /\ ~config["env"].disable
    /\ fs[default_path("env")] = "dir"
    /\ ~config["scripts"].disable

\* the closure of the second progress_wrapper is running or has returned
InArchiveSession ==
    pc \in {"create_archive", "create_checksum", "write", "tar_finish",
            "gz_finish", "seek", "digest", "write_checksum", "archive_end"}

\* C15: throughout an archive session the bar's position is the number of
\* entries written so far and its length is total_files(), the sum of the
\* lengths of the present collections; once write_archive has returned Ok
\* the position equals that length; and every step that appends a file
\* advances the position by exactly one while no other step moves it.
C15_CounterTracksEntries ==
    /\ [](InArchiveSession =>
            /\ current = 2
            /\ bars[2].len = total_files(found)
            /\ total_files(found) = SumLen(Groups)
            /\ SumLen(Groups) = Len(RootEnvScripts)
            /\ bars[2].pos = Len(tarb.entries)
            /\ tarb.finished => bars[2].pos = bars[2].len)
    /\ [][InArchiveSession /\ InArchiveSession' =>
             /\ bars'[2].len = bars[2].len
             /\ bars'[2].pos =
                   IF tarb'.entries # tarb.entries
                   THEN bars[2].pos + 1 ELSE bars[2].pos]_vars

\* a successful run over files of two groups: the counter ended at the
\* session's length of three
C15_Witness ==
    /\ pc = "done"
    /\ result = "ok"
    /\ Len(bars) = 2
    /\ bars[2].pos = 3
    /\ bars[2].len = 3
    /\ found["root"].files # <<>>
    /\ found["env"].files # <<>>

\* a step of make_archive after the two files were created and before the
\* checksum is written has failed
LaterStepFailed ==
    /\ ArchiveErr # <<>>
    /\ ArchiveErr[1] \in {"append", "finish archive", "finish gzip", "seek",
                          "hasher"}

\* C16: the checksum file is created only after the archive file, and both
\* exist before anything is written to the archive; after a failed append,
\* tar or gzip finalization, seek or digest read both files exist and the
\* checksum file is empty; the checksum file has content only after every
\* entry was written, container and encoder were finished and the digest of
\* the archive file was taken; and neither file is ever removed.
C16_FilesCreatedFirst ==
    /\ [](/\ disk.checksum.exists => disk.archive.exists
          /\ (tarb.entries # <<>> \/ disk.archive.content # <<>>) =>
                disk.archive.exists /\ disk.checksum.exists
          /\ LaterStepFailed =>
                /\ disk.archive.exists
                /\ disk.checksum.exists
                /\ disk.checksum.content = <<>>
          /\ disk.checksum.content # <<>> =>
                /\ disk.checksum.exists
                /\ tarb.entries = RootEnvScripts
                /\ tarb.finished
                /\ gz.finished
                /\ digest = Sha256(disk.archive.content))
    /\ [][/\ disk.archive.exists => disk'.archive.exists
          /\ disk.checksum.exists => disk'.checksum.exists]_vars

\* the digest read failed after the whole archive was written: the run
\* ended with both files on disk and an empty checksum file
C16_Witness ==
    /\ pc = "done"
    /\ returned.err = <<"hasher">>
    /\ disk.archive.exists
    /\ gz.finished
    /\ disk.checksum.exists
    /\ disk.checksum.content = <<>>

====
